---------------------------- MODULE Spec2Model ----------------------------
(***************************************************************************)
(* Model of spdlog's memory-mapped "fastfile" writer                       *)
(*   include/spdlog/details/fastfile_helper.h  (fastfile_helper)           *)
(*   include/spdlog/sinks/fastfile_sinks.h     (the three sinks)           *)
(*                                                                         *)
(* The helper is modelled as built for _WIN32: it is the only branch whose *)
(* names are all declared (Truncate is defined under #ifdef _WIN32 only,   *)
(* and the other branch opens the undeclared m_file_).  The Win32 calls    *)
(* are modelled by their documented behaviour:                             *)
(*   CreateFile(OPEN_ALWAYS)       opens the file, creating it empty       *)
(*   CreateFileMapping(h,..,0,n)   section of n bytes (n = 0: the file's   *)
(*                                 size, an empty file is refused); a      *)
(*                                 shorter file is extended to n           *)
(*   MapViewOfFile(m,..,0,off,n)   view of n bytes at file offset off      *)
(*                                 (n = 0: to the end of the section);     *)
(*                                 refused when the view is empty or does  *)
(*                                 not lie inside the section              *)
(*   _open(name, O_RDWR)           fails when the file does not exist      *)
(*   _chsize_s(fd, n)              cuts, or extends with zero bytes        *)
(* A file is a sequence of bytes; byte 0 is the zero fill.                 *)
(***************************************************************************)
EXTENDS Integers, Sequences, FiniteSets, TLC

(***************************************************************************)
(* Bounds of the model.                                                    *)
(***************************************************************************)
MaxCap == 3          \* largest capacity / max_size handed to open
MaxMsg == 2          \* longest record
MaxBytes == 3        \* bytes appended over a whole run
MaxFiles == 2        \* largest max_files of a rotating sink
MaxDay == 1          \* the clock runs over days 0..MaxDay
TicksPerSecond == 2  \* resolution of system_clock, in ticks per second

NoFile == <<-1>>     \* "the path names no file" (no file holds byte -1)

HoursPerDay == 24    \* std::chrono::hours(24)
open_tries == 5      \* const int open_tries = 5

VARIABLES
    max_size_,    \* fastfile_helper::max_size_
    offset_,      \* fastfile_helper::offset_
    buf_,         \* fastfile_helper::buf_ : the view the pointer refers to
    fd_,          \* fastfile_helper::fd_
    mmap_,        \* fastfile_helper::mmap_
    _filename,    \* fastfile_helper::_filename
    fs,           \* the file system: path -> bytes, or NoFile
    held,         \* the OS objects the process holds (file, section, view)
    faults,       \* the undefined steps the last call executed
    op,           \* the last call and its arguments
    err,          \* the exception the last call raised, or "none"
    io,           \* the file operations the last call carried out
    appended,     \* history: the bytes appended since the last open call
    total,        \* history: number of bytes appended so far
    crashed,      \* an undefined step ended the process
    sink,         \* the sink that owns the helper: "none", "rotating", "daily"
    _max_size,    \* rotating_fastfile_sink::_max_size
    _max_files,   \* rotating_fastfile_sink::_max_files
    _current_size,\* rotating_fastfile_sink::_current_size
    gens,         \* history: the records of each generation, newest first
    _rotation_h,  \* daily_fastfile_sink::_rotation_h
    _rotation_m,  \* daily_fastfile_sink::_rotation_m
    _rotation_tp, \* daily_fastfile_sink::_rotation_tp, in ticks
    tp_at,        \* history: the now() that _rotation_tp was computed from
    now           \* std::chrono::system_clock::now(), in ticks

hvars == <<max_size_, offset_, buf_, fd_, mmap_, _filename>>
wvars == <<fs, held, faults, err, io>>
rvars == <<_max_size, _max_files, _current_size, gens>>
dvars == <<_rotation_h, _rotation_m, _rotation_tp, tp_at>>
vars == <<max_size_, offset_, buf_, fd_, mmap_, _filename, fs, held, faults,
          op, err, io, appended, total, crashed, sink, _max_size, _max_files,
          _current_size, gens, _rotation_h, _rotation_m, _rotation_tp, tp_at,
          now>>

(***************************************************************************)
(* Values of the handle fields.                                            *)
(***************************************************************************)
INVALID_HANDLE_VALUE == [st |-> "invalid", size |-> 0]
NULL_HANDLE == [st |-> "null", size |-> 0]
StaleHandle == [st |-> "stale", size |-> 0]
LiveMapping(n) == [st |-> "live", size |-> n]

NoFd == [st |-> "invalid", file |-> <<>>]
OpenFd(f) == [st |-> "open", file |-> f]

UninitBuf == [st |-> "uninit", file |-> <<>>, base |-> 0, len |-> 0]
NullBuf == [st |-> "null", file |-> <<>>, base |-> 0, len |-> 0]
StaleBuf == [st |-> "stale", file |-> <<>>, base |-> 0, len |-> 0]
LiveBuf(f, b, n) == [st |-> "live", file |-> f, base |-> b, len |-> n]

NoneHeld == [file |-> 0, mapping |-> 0, view |-> 0]

(***************************************************************************)
(* The machine state the operators below transform: the helper's fields    *)
(* and the part of the world its calls act on.                             *)
(***************************************************************************)
M == [max_size_ |-> max_size_, offset_ |-> offset_, buf_ |-> buf_,
      fd_ |-> fd_, mmap_ |-> mmap_, _filename |-> _filename,
      fs |-> fs, held |-> held, faults |-> {},
      err |-> "none", io |-> {}]

(***************************************************************************)
(* os:: collaborators and the Win32 calls.                                 *)
(***************************************************************************)
file_exists(files, name) == name \in DOMAIN files /\ files[name] # NoFile

filesize(files, name) == Len(files[name])

Zeros(n) == [i \in 1..n |-> 0]

Resize(bytes, n) ==
    IF n <= Len(bytes) THEN SubSeq(bytes, 1, n)
    ELSE bytes \o Zeros(n - Len(bytes))

\* static void Truncate(filename_t filename, long long file_size)
Truncate(m, filename, file_size) ==
    IF ~file_exists(m.fs, filename)
    THEN m                                        \* _open fails: return
    ELSE [m EXCEPT !.fs[filename] = Resize(@, file_size),
                   !.io = @ \cup {"open", "resize"}]

\* UnmapViewOfFile(buf_): the view is released; the pointer keeps its value
UnmapViewOfFile(m) ==
    CASE m.buf_.st = "live" ->
            [m EXCEPT !.buf_ = StaleBuf, !.held.view = @ - 1]
      [] m.buf_.st = "stale" ->
            [m EXCEPT !.faults = @ \cup {"stale_release"}]
      [] m.buf_.st = "uninit" ->
            [m EXCEPT !.faults = @ \cup {"uninit_use"}]
      [] OTHER -> m

\* CloseHandle(mmap_): mmap_ keeps its value
CloseMapping(m) ==
    CASE m.mmap_.st = "live" ->
            [m EXCEPT !.mmap_ = StaleHandle, !.held.mapping = @ - 1]
      [] m.mmap_.st = "stale" ->
            [m EXCEPT !.faults = @ \cup {"stale_release"}]
      [] OTHER -> m

\* CloseHandle(fd_); fd_ = INVALID_HANDLE_VALUE
CloseFd(m) ==
    IF m.fd_.st = "open"
    THEN [m EXCEPT !.fd_ = NoFd, !.held.file = @ - 1]
    ELSE [m EXCEPT !.fd_ = NoFd]

\* void close()
close(m) ==
    Truncate(CloseFd(CloseMapping(UnmapViewOfFile(m))), m._filename, m.offset_)


(***************************************************************************)
(* void open(const filename_t& fname, long long max_size, bool truncate)   *)
(* env says, per OS call, whether the OS grants a call whose arguments are *)
(* valid (FALSE: a transient failure such as a sharing violation).         *)
(***************************************************************************)
Grant(refused) == [create |-> refused # "create", mapping |-> refused # "mapping",
                   view |-> refused # "view", remove |-> refused # "remove",
                   rename |-> refused # "rename"]
AllGranted == Grant("none")
\* one refusal at a time: the first refused call ends the operation
OsGrants == {Grant(r) : r \in {"none", "create", "mapping", "view"}}
RotateGrants == {Grant(r) : r \in {"none", "create", "mapping", "view",
                                    "remove", "rename"}}

OpenFailed(m) == [m EXCEPT !.err = "open_failed"]

\* fd_ = CreateFile(fname, ..., OPEN_ALWAYS, ...)
CreateFile(m, fname, granted) ==
    IF ~granted \/ fname \notin DOMAIN m.fs
    THEN OpenFailed([m EXCEPT !.fd_ = NoFd])
    ELSE [m EXCEPT !.fd_ = OpenFd(fname),
                   !.held.file = @ + 1,
                   !.fs[fname] = IF @ = NoFile THEN <<>> ELSE @,
                   !.io = @ \cup (IF m.fs[fname] = NoFile
                                  THEN {"create", "open"} ELSE {"open"})]

\* the size of the section CreateFileMapping(fd_, ..., 0, max_size_) makes
SectionSize(m, fname) ==
    IF m.max_size_ = 0 THEN filesize(m.fs, fname) ELSE m.max_size_

\* mmap_ = CreateFileMapping(fd_, NULL, PAGE_READWRITE, 0, max_size_, NULL)
CreateFileMapping(m, fname, granted) ==
    LET n == SectionSize(m, fname) IN
    IF ~granted \/ n = 0
    THEN \* CloseHandle(fd_); fd_ = INVALID_HANDLE_VALUE; throw
         OpenFailed(CloseFd([m EXCEPT !.mmap_ = NULL_HANDLE]))
    ELSE [m EXCEPT !.mmap_ = LiveMapping(n),
                   !.held.mapping = @ + 1,
                   !.fs[fname] = IF Len(@) < n THEN Resize(@, n) ELSE @,
                   !.io = @ \cup (IF filesize(m.fs, fname) < n
                                  THEN {"resize"} ELSE {})]

\* the length of the view MapViewOfFile(mmap_, ..., 0, offset_, max_size_) asks
ViewLen(m) ==
    IF m.max_size_ = 0 THEN m.mmap_.size - m.offset_ ELSE m.max_size_

\* buf_ = (char *)MapViewOfFile(mmap_, FILE_MAP_ALL_ACCESS, 0, offset_, max_size_)
MapViewOfFile(m, fname, granted) ==
    LET n == ViewLen(m) IN
    IF ~granted \/ n <= 0 \/ m.offset_ + n > m.mmap_.size
    THEN \* CloseHandle(mmap_); mmap_ = INVALID_HANDLE_VALUE; CloseHandle(fd_);
         \* fd_ = INVALID_HANDLE_VALUE; Truncate(fname, 0); throw
         OpenFailed(Truncate(
             CloseFd([CloseMapping([m EXCEPT !.buf_ = NullBuf])
                         EXCEPT !.mmap_ = INVALID_HANDLE_VALUE]),
             fname, 0))
    ELSE [m EXCEPT !.buf_ = LiveBuf(fname, m.offset_, n),
                   !.held.view = @ + 1]

\* lines 90-102: record the arguments, close, truncate, adopt the file's size
OpenPrepare(m, fname, max_size, truncate) ==
    LET m1 == close([m EXCEPT !.max_size_ = max_size, !._filename = fname])
        m2 == IF truncate THEN Truncate(m1, fname, 0) ELSE m1
    IN  IF file_exists(m2.fs, fname)
        THEN [m2 EXCEPT !.offset_ = filesize(m2.fs, fname)]
        ELSE m2

open(m, fname, max_size, truncate, env) ==
    LET m1 == OpenPrepare(m, fname, max_size, truncate)
        m2 == CreateFile(m1, fname, env.create)
        m3 == IF m2.err = "none" THEN CreateFileMapping(m2, fname, env.mapping)
              ELSE m2
    IN  IF m3.err = "none" THEN MapViewOfFile(m3, fname, env.view) ELSE m3

\* the conversion of the bool argument to long long
BoolToLongLong(b) == IF b THEN 1 ELSE 0

\* void reopen(bool truncate): open(_filename, truncate)
reopen(m, truncate, env) ==
    IF m._filename = <<>>
    THEN [m EXCEPT !.err = "reopen_not_opened"]
    ELSE open(m, m._filename, BoolToLongLong(truncate), FALSE, env)

(***************************************************************************)
(* void write(const log_msg& msg): memcpy(buf_ + offset_, data, msg_size)  *)
(* Byte i of the record goes to buf_[offset_ + i], which is position       *)
(* base + offset_ + i of the mapped file when it lies inside the view.     *)
(* Outside the view (or with no live view) the copy is undefined: nothing  *)
(* reaches the file.                                                       *)
(***************************************************************************)
InView(m, k) == m.buf_.st = "live" /\ k >= 0 /\ k < m.buf_.len

StoreBytes(m, msg) ==
    LET f == m.buf_.file
        at(pos) == pos - m.buf_.base - m.offset_   \* index into msg, from 0
    IN  [m EXCEPT !.fs[f] =
            [pos \in 1..Len(@) |->
                IF /\ at(pos - 1) >= 0
                   /\ at(pos - 1) < Len(msg)
                   /\ InView(m, m.offset_ + at(pos - 1))
                THEN msg[at(pos - 1) + 1]
                ELSE @[pos]]]

\* offset_ = msg_size in place of offset_ += msg_size
write_OffsetAssigned(m, msg) ==
    [(IF m.buf_.st = "live" THEN StoreBytes(m, msg) ELSE m)
        EXCEPT !.offset_ = Len(msg)]

write(m, msg) ==
    LET live == m.buf_.st = "live"
        m1 == IF live THEN StoreBytes(m, msg) ELSE m
        m2 == CASE ~live -> [m1 EXCEPT !.faults = @ \cup {"no_view"}]
                [] m.offset_ + Len(msg) > m.buf_.len ->
                      [m1 EXCEPT !.faults = @ \cup {"out_of_bounds"}]
                [] OTHER -> m1
    IN  [m2 EXCEPT !.offset_ = @ + Len(msg)]

\* size_t size()
size(m) == m.offset_



(***************************************************************************)
(* rotating_fastfile_sink                                                  *)
(***************************************************************************)
\* static filename_t calc_filename(const filename_t& filename, std::size_t index)
calc_filename(filename, index) ==
    IF index # 0 THEN filename \o <<index>> ELSE filename

RotationFailed(m) == [m EXCEPT !.err = "rotation_failed"]

\* details::os::remove(target)
Remove(m, target, granted) ==
    IF granted
    THEN [m EXCEPT !.fs[target] = NoFile, !.io = @ \cup {"remove"}]
    ELSE RotationFailed(m)

\* a failed rename passed over in place of throwing
Rename_Swallowed(m, src, target, granted) ==
    IF granted
    THEN [m EXCEPT !.fs[target] = m.fs[src], !.fs[src] = NoFile,
                   !.io = @ \cup {"rename"}]
    ELSE m

\* details::os::rename(src, target)
Rename(m, src, target, granted) ==
    IF granted
    THEN [m EXCEPT !.fs[target] = m.fs[src], !.fs[src] = NoFile,
                   !.io = @ \cup {"rename"}]
    ELSE RotationFailed(m)

\* the loop of _rotate: for (auto i = _max_files; i > 0; --i)
RECURSIVE ShiftFiles(_, _, _, _)
ShiftFiles(m, base, i, env) ==
    IF i <= 0 THEN m
    ELSE LET src == calc_filename(base, i - 1)
             target == calc_filename(base, i)
             m1 == IF file_exists(m.fs, target)
                   THEN Remove(m, target, env.remove) ELSE m
             m2 == IF m1.err = "none" /\ file_exists(m1.fs, src)
                   THEN Rename(m1, src, target, env.rename) ELSE m1
         IN  IF m2.err = "none" THEN ShiftFiles(m2, base, i - 1, env) ELSE m2

\* the loop started one index too high
_rotate_OneMore(m, base, max_files, env) ==
    LET m1 == ShiftFiles(close(m), base, max_files + 1, env)
    IN  IF m1.err = "none" THEN reopen(m1, TRUE, env) ELSE m1

\* void _rotate()
_rotate(m, base, max_files, env) ==
    LET m1 == ShiftFiles(close(m), base, max_files, env)
    IN  IF m1.err = "none" THEN reopen(m1, TRUE, env) ELSE m1

\* rotating_fastfile_sink(base_filename, max_size, max_files): the helper's
\* state after the constructor body, err set when it throws
rotating_ctor(m, base, max_size, env) ==
    open(m, calc_filename(base, 0), max_size, FALSE, env)

\* _current_size left at the grown value after a rotation
rotating_sink_it_NoReset(m, cur, base, max_size, max_files, msg, env) ==
    LET grown == cur + Len(msg)
    IN  IF grown > max_size
        THEN LET m1 == _rotate(m, base, max_files, env)
             IN  IF m1.err = "none"
                 THEN [m |-> write(m1, msg), cur |-> grown]
                 ELSE [m |-> m1, cur |-> grown]
        ELSE [m |-> write(m, msg), cur |-> grown]

\* the rotation taken already when the record fills the file exactly
rotating_sink_it_RotatesAtLimit(m, cur, base, max_size, max_files, msg, env) ==
    LET grown == cur + Len(msg)
    IN  IF grown >= max_size
        THEN LET m1 == _rotate(m, base, max_files, env)
             IN  IF m1.err = "none"
                 THEN [m |-> write(m1, msg), cur |-> Len(msg)]
                 ELSE [m |-> m1, cur |-> grown]
        ELSE [m |-> write(m, msg), cur |-> grown]

\* rotating_fastfile_sink::_sink_it: the helper's state and _current_size
\* when the call returns or throws
rotating_sink_it(m, cur, base, max_size, max_files, msg, env) ==
    LET grown == cur + Len(msg)
    IN  IF grown > max_size
        THEN LET m1 == _rotate(m, base, max_files, env)
             IN  IF m1.err = "none"
                 THEN [m |-> write(m1, msg), cur |-> Len(msg)]
                 ELSE [m |-> m1, cur |-> grown]
        ELSE [m |-> write(m, msg), cur |-> grown]

(***************************************************************************)
(* daily_fastfile_sink.  Time is counted in ticks of system_clock; local   *)
(* time is a fixed offset from the epoch, so a calendar day is 24 hours.   *)
(* A tm value is [day, hour, min, sec], day standing for year/month/mday.  *)
(***************************************************************************)
SecondsPerDay == HoursPerDay * 60 * 60

\* std::chrono::system_clock::to_time_t(now)
to_time_t(tp) == tp \div TicksPerSecond

\* std::chrono::system_clock::from_time_t(t)
from_time_t(t) == t * TicksPerSecond

\* spdlog::details::os::localtime(tnow)
localtime(t) ==
    [day |-> t \div SecondsPerDay,
     hour |-> (t % SecondsPerDay) \div (60 * 60),
     min |-> (t % (60 * 60)) \div 60,
     sec |-> t % 60]

\* std::mktime(&date): the fields need not be in range
mktime(date) ==
    ((date.day * HoursPerDay + date.hour) * 60 + date.min) * 60 + date.sec

\* std::chrono::hours(24)
Hours24 == from_time_t(HoursPerDay * 60 * 60)

\* rotation_time >= now in place of rotation_time > now
_next_rotation_tp_NotStrict(tnow, rotation_h, rotation_m) ==
    LET date == [localtime(to_time_t(tnow)) EXCEPT
                    !.hour = rotation_h, !.min = rotation_m, !.sec = 0]
        rotation_time == from_time_t(mktime(date))
    IN  IF rotation_time >= tnow THEN rotation_time
        ELSE rotation_time + Hours24

\* std::chrono::system_clock::time_point _next_rotation_tp()
_next_rotation_tp(tnow, rotation_h, rotation_m) ==
    LET date == [localtime(to_time_t(tnow)) EXCEPT
                    !.hour = rotation_h, !.min = rotation_m, !.sec = 0]
        rotation_time == from_time_t(mktime(date))
    IN  IF rotation_time > tnow THEN rotation_time
        ELSE rotation_time + Hours24

\* the upper limits taken one too high: hour 24 and minute 60 pass
InvalidRotationTime_OffByOne(rotation_hour, rotation_minute) ==
    rotation_hour < 0 \/ rotation_hour > 24
        \/ rotation_minute < 0 \/ rotation_minute > 60

\* the constructor's check of rotation_hour and rotation_minute
InvalidRotationTime(rotation_hour, rotation_minute) ==
    rotation_hour < 0 \/ rotation_hour > 23
        \/ rotation_minute < 0 \/ rotation_minute > 59

\* FileNameCalc::calc_filename(_base_filename): the default calculator names
\* the file after the local date, hour and minute of the call
daily_calc_filename(base, tnow) ==
    LET date == localtime(to_time_t(tnow))
    IN  base \o <<date.day, date.hour, date.min>>

(***************************************************************************)
(* File names (a name is a sequence, "" is <<>>) and the clock's instants. *)
(***************************************************************************)
OnePath == {<<"a">>}
TwoPaths == {<<"a">>, <<"b">>}
RotBase == <<"log">>
DailyBase == <<"daily">>

\* seconds of the day the clock can show: around midnight and around the
\* rotation times a sink can be configured with
SecondsOfDay ==
    LET at(h, m, s) == (h * 60 + m) * 60 + s
    IN  {at(0, 0, 0), at(0, 0, 1), at(23, 59, 0), at(23, 59, 59)}

\* whole seconds, and the last tick before each midnight
Instants ==
    {from_time_t(d * SecondsPerDay + s) : d \in 0..MaxDay, s \in SecondsOfDay}
        \cup {from_time_t((d + 1) * SecondsPerDay) - 1 : d \in 0..MaxDay}

\* the instant the clock shows next, if any
Later(t) == {u \in Instants : u > t}
NextInstant(t) ==
    IF Later(t) = {} THEN t
    ELSE CHOOSE u \in Later(t) : \A v \in Later(t) : u <= v

Paths ==
    TwoPaths \cup {calc_filename(RotBase, i) : i \in 0..(MaxFiles + 1)}
             \cup {daily_calc_filename(DailyBase, t) : t \in Instants}

(***************************************************************************)
(* State, initial state and the calls.                                     *)
(***************************************************************************)
\* explicit fastfile_helper() : offset_(0), fd_ and mmap_ invalid; max_size_
\* is assigned by open before anything reads it
Constructed ==
    [max_size_ |-> 0, offset_ |-> 0, buf_ |-> UninitBuf, fd_ |-> NoFd,
     mmap_ |-> INVALID_HANDLE_VALUE, _filename |-> <<>>]

\* the last call: its name, and whether the OS granted every call it made
Call(name, granted) == [name |-> name, granted |-> granted]

Init ==
    /\ max_size_ = Constructed.max_size_
    /\ offset_ = Constructed.offset_
    /\ buf_ = Constructed.buf_
    /\ fd_ = Constructed.fd_
    /\ mmap_ = Constructed.mmap_
    /\ _filename = Constructed._filename
    /\ fs = [p \in Paths |-> NoFile]
    /\ held = NoneHeld
    /\ faults = {}
    /\ op = Call("none", TRUE)
    /\ err = "none"
    /\ io = {}
    /\ appended = <<>>
    /\ total = 0
    /\ crashed = FALSE
    /\ sink = "none"
    /\ _max_size = 0
    /\ _max_files = 0
    /\ _current_size = 0
    /\ gens = <<>>
    /\ _rotation_h = 0
    /\ _rotation_m = 0
    /\ _rotation_tp = 0
    /\ tp_at = 0
    /\ now = 0

\* the variables take the machine state a call returned
Becomes(m) ==
    /\ max_size_' = m.max_size_
    /\ offset_' = m.offset_
    /\ buf_' = m.buf_
    /\ fd_' = m.fd_
    /\ mmap_' = m.mmap_
    /\ _filename' = m._filename
    /\ fs' = m.fs
    /\ held' = m.held
    /\ faults' = m.faults
    /\ err' = m.err
    /\ io' = m.io

\* ~fastfile_helper() { close(); }, and the fields of the helper built next
Destroyed(m) ==
    [close(m) EXCEPT !.max_size_ = Constructed.max_size_,
                     !.offset_ = Constructed.offset_,
                     !.buf_ = Constructed.buf_,
                     !.fd_ = Constructed.fd_,
                     !.mmap_ = Constructed.mmap_,
                     !._filename = Constructed._filename]

\* a constructor that threw: the error stays, the helper member is destroyed
Thrown(m) == [Destroyed(m) EXCEPT !.err = m.err]

\* the record a caller formats next: bytes never used before
NextMsg(n) == [i \in 1..n |-> total + i]

(***************************************************************************)
(* The helper called directly (as simple_fastfile_sink does: open in the   *)
(* constructor, write in _sink_it).                                        *)
(***************************************************************************)
Open(fname, max_size, truncate, env) ==
    /\ ~crashed /\ sink = "none"
    /\ Becomes(open(M, fname, max_size, truncate, env))
    /\ op' = Call("open", env = AllGranted)
    /\ appended' = <<>>
    /\ UNCHANGED <<total, crashed, sink, rvars, dvars, now>>

Reopen(truncate, env) ==
    /\ ~crashed /\ sink = "none"
    /\ Becomes(reopen(M, truncate, env))
    /\ op' = Call("reopen", env = AllGranted)
    /\ appended' = <<>>
    /\ UNCHANGED <<total, crashed, sink, rvars, dvars, now>>

Close ==
    /\ ~crashed /\ sink = "none"
    /\ Becomes(close(M))
    /\ op' = Call("close", TRUE)
    /\ UNCHANGED <<appended, total, crashed, sink, rvars, dvars, now>>

\* a caller appends only to a writer whose last open succeeded
Write(n, crash) ==
    /\ ~crashed /\ sink = "none"
    /\ buf_.st = "live"
    /\ total + n <= MaxBytes
    /\ LET m == write(M, NextMsg(n)) IN
         /\ Becomes(m)
         /\ crashed' = (crash /\ m.faults # {})
    /\ op' = Call("write", TRUE)
    /\ appended' = appended \o NextMsg(n)
    /\ total' = total + n
    /\ UNCHANGED <<sink, rvars, dvars, now>>

\* the helper, or the sink that owns it, is destroyed and a new helper built
Recreate ==
    /\ ~crashed
    /\ Becomes(Destroyed(M))
    /\ op' = Call("recreate", TRUE)
    /\ appended' = <<>>
    /\ sink' = "none"
    /\ UNCHANGED <<total, crashed, rvars, dvars, now>>

(***************************************************************************)
(* rotating_fastfile_sink's calls.  A sink built again after a restart is  *)
(* given the configuration it had.                                         *)
(***************************************************************************)
RotatingCtor(max_size, max_files, env) ==
    /\ ~crashed /\ sink = "none"
    /\ _max_size \in {0, max_size} /\ (_max_size # 0 => max_files = _max_files)
    /\ LET m == rotating_ctor(M, RotBase, max_size, env) IN
         IF m.err = "none"
         THEN /\ Becomes(m)
              /\ sink' = "rotating"
              /\ _current_size' = size(m)
         ELSE /\ Becomes(Thrown(m))
              /\ sink' = "none"
              /\ _current_size' = 0
    /\ _max_size' = max_size
    /\ _max_files' = max_files
    /\ gens' = IF gens = <<>> THEN << <<>> >> ELSE gens
    /\ op' = Call("rotating_ctor", env = AllGranted)
    /\ appended' = <<>>
    /\ UNCHANGED <<total, crashed, dvars, now>>

RotatingSinkIt(n, env, crash) ==
    /\ ~crashed /\ sink = "rotating"
    /\ total + n <= MaxBytes
    /\ LET r == rotating_sink_it(M, _current_size, RotBase, _max_size,
                                 _max_files, NextMsg(n), env)
       IN  /\ Becomes(r.m)
           /\ _current_size' = r.cur
           /\ crashed' = (crash /\ r.m.faults # {})
    /\ gens' = IF _current_size + n > _max_size
               THEN <<NextMsg(n)>> \o gens
               ELSE [gens EXCEPT ![1] = @ \o NextMsg(n)]
    /\ op' = Call("rotating_sink_it", env = AllGranted)
    /\ appended' = CASE _current_size + n <= _max_size -> appended \o NextMsg(n)
                     [] err' = "none" -> NextMsg(n)
                     [] OTHER -> <<>>
    /\ total' = total + n
    /\ UNCHANGED <<sink, _max_size, _max_files, dvars, now>>

(***************************************************************************)
(* daily_fastfile_sink's calls.  The source calls open with the file name  *)
(* alone, so the capacity is whatever value `capacity` stands for.  A call  *)
(* reads now() more than once: t0 is the first reading, and each later     *)
(* reading is the same instant or the one the clock shows next.  A sink    *)
(* built again after a restart is given the configuration it had.          *)
(***************************************************************************)
Readings(t) == {t, NextInstant(t)}

DailyCtor(rotation_hour, rotation_minute, capacity, env, t0, t1) ==
    /\ ~crashed /\ sink = "none"
    /\ t0 = now /\ t1 \in Readings(t0)
    /\ \/ InvalidRotationTime(rotation_hour, rotation_minute)
       \/ _rotation_tp = 0
       \/ rotation_hour = _rotation_h /\ rotation_minute = _rotation_m
    /\ IF InvalidRotationTime(rotation_hour, rotation_minute)
       THEN /\ Becomes(Thrown([M EXCEPT !.err = "invalid_configuration"]))
            /\ sink' = "none"
            /\ UNCHANGED <<dvars, now>>
       ELSE LET m == open(M, daily_calc_filename(DailyBase, t1), capacity,
                          FALSE, env)
            IN  /\ _rotation_h' = rotation_hour
                /\ _rotation_m' = rotation_minute
                /\ _rotation_tp' = _next_rotation_tp(t0, rotation_hour,
                                                     rotation_minute)
                /\ tp_at' = t0
                /\ now' = t1
                /\ IF m.err = "none"
                   THEN Becomes(m) /\ sink' = "daily"
                   ELSE Becomes(Thrown(m)) /\ sink' = "none"
    /\ op' = Call("daily_ctor", env = AllGranted)
    /\ appended' = <<>>
    /\ UNCHANGED <<total, crashed, rvars>>

DailySinkIt(n, capacity, env, crash, t0, t1, t2) ==
    /\ ~crashed /\ sink = "daily"
    /\ total + n <= MaxBytes
    /\ t0 = now /\ t1 \in Readings(t0) /\ t2 \in Readings(t1)
    /\ IF t0 >= _rotation_tp
       THEN LET m == open(M, daily_calc_filename(DailyBase, t1), capacity,
                          FALSE, env)
            IN  IF m.err = "none"
                THEN /\ _rotation_tp' = _next_rotation_tp(t2, _rotation_h,
                                                          _rotation_m)
                     /\ tp_at' = t2
                     /\ now' = t2
                     /\ LET w == write(m, NextMsg(n)) IN
                          /\ Becomes(w)
                          /\ crashed' = (crash /\ w.faults # {})
                     /\ appended' = NextMsg(n)
                     /\ total' = total + n
                ELSE /\ Becomes(m)
                     /\ now' = t1
                     /\ appended' = <<>>
                     /\ UNCHANGED <<_rotation_tp, tp_at, crashed, total>>
       ELSE /\ t1 = t0 /\ t2 = t0
            /\ now' = t0
            /\ LET w == write(M, NextMsg(n)) IN
                 /\ Becomes(w)
                 /\ crashed' = (crash /\ w.faults # {})
            /\ appended' = appended \o NextMsg(n)
            /\ total' = total + n
            /\ UNCHANGED <<_rotation_tp, tp_at>>
    /\ op' = Call("daily_sink_it", env = AllGranted)
    /\ UNCHANGED <<sink, rvars, _rotation_h, _rotation_m>>

\* the clock advances
Tick(t) ==
    /\ ~crashed
    /\ t > now
    /\ now' = t
    /\ UNCHANGED <<hvars, wvars, op, appended, total, crashed, sink, rvars, dvars>>

(***************************************************************************)
(* Specifications.                                                         *)
(***************************************************************************)
Capacities == 1..MaxCap
Lengths == 1..MaxMsg

\* the helper on one file
Next ==
    \/ \E f \in OnePath, c \in Capacities, t \in BOOLEAN, env \in OsGrants :
          Open(f, c, t, env)
    \/ \E t \in BOOLEAN, env \in OsGrants : Reopen(t, env)
    \/ Close
    \/ \E n \in Lengths, crash \in BOOLEAN : Write(n, crash)
    \/ Recreate

Spec == Init /\ [][Next]_vars

\* the helper moved between two files, the OS granting every call
NextTwoPaths ==
    \/ \E f \in TwoPaths, c \in Capacities, t \in BOOLEAN :
          Open(f, c, t, AllGranted)
    \/ \E t \in BOOLEAN : Reopen(t, AllGranted)
    \/ Close
    \/ \E n \in Lengths, crash \in BOOLEAN : Write(n, crash)
    \/ Recreate

SpecTwoPaths == Init /\ [][NextTwoPaths]_vars

\* the size-rotating sink
NextRotating ==
    \/ \E c \in Capacities, k \in 0..MaxFiles, env \in OsGrants :
          RotatingCtor(c, k, env)
    \/ \E n \in Lengths, env \in RotateGrants, crash \in BOOLEAN :
          RotatingSinkIt(n, env, crash)
    \/ Recreate

SpecRotating == Init /\ [][NextRotating]_vars

\* the time-rotating sink, the OS granting every call
NextDaily ==
    \/ \E h \in {-1, 0, 23, 24}, m \in {-1, 0, 59, 60}, t1 \in Readings(now) :
          DailyCtor(h, m, MaxCap, AllGranted, now, t1)
    \/ \E n \in Lengths, crash \in BOOLEAN, t1 \in Readings(now) :
          \E t2 \in Readings(t1) :
             DailySinkIt(n, MaxCap, AllGranted, crash, now, t1, t2)
    \/ \E t \in Later(now) : Tick(t)

SpecDaily == Init /\ [][NextDaily]_vars


(***************************************************************************)
(* Properties.                                                             *)
(***************************************************************************)
A == <<"a">>

\* the file begins with the bytes
StartsWith(file, bytes) ==
    Len(bytes) <= Len(file) /\ SubSeq(file, 1, Len(bytes)) = bytes

\* the writer is open and everything appended since open fitted the capacity
Within == fd_.st = "open" /\ buf_.st = "live" /\ Len(appended) <= max_size_

\* C1: an append with offset + len(bytes) > capacity is rejected with a
\* capacity-exceeded error, leaves offset and the file's bytes unchanged, and
\* copies nothing to a position at or beyond capacity.
C1_OverflowRejected ==
    [][\A n \in Lengths, crash \in BOOLEAN :
          (Write(n, crash) /\ offset_ + n > max_size_)
              => /\ err' = "capacity_exceeded"
                 /\ offset_' = offset_
                 /\ fs' = fs
                 /\ "out_of_bounds" \notin faults']_vars

\* C2: after a successful open, while the appended spans fit the capacity,
\* size() is the sum of their lengths and the mapped file starts with their
\* concatenation; after close() the file is exactly that concatenation.
C2_AppendSizeConsistency ==
    [][/\ Within' => /\ offset_' = Len(appended')
                     /\ StartsWith(fs'[_filename'], appended')
       /\ (Within /\ Close) => fs'[_filename] = appended]_vars

C2_Witness ==
    /\ op.name = "close" /\ err = "none"
    /\ Len(appended) = MaxCap
    /\ fs[A] = appended

\* C3: while the writer is open the file's size is the capacity; once the
\* writer stops being open (close(), or open called with another path) the
\* file that was open has exactly offset bytes.
C3_CloseReclaimsSlack ==
    [][/\ Within' => Len(fs'[fd_'.file]) = max_size_'
       /\ \A f \in TwoPaths, c \in Capacities, t \in BOOLEAN :
             (Within /\ (Close \/ (Open(f, c, t, AllGranted) /\ f # fd_.file)))
                 => Len(fs'[fd_.file]) = offset_]_vars

\* C4: a non-truncating open of a file left by a prior close, of size
\* 0 < s < capacity, resumes offset at s with the view starting at the
\* beginning of the file (so that appended bytes land at s, s+1, ...), and
\* keeps the prior content.
C4_ResumeAcrossReopen ==
    [][\A c \in Capacities :
          (/\ Open(A, c, FALSE, AllGranted)
           /\ op.name = "close" /\ file_exists(fs, A)
           /\ Len(fs[A]) > 0 /\ Len(fs[A]) < c)
              => /\ err' = "none"
                 /\ offset_' = Len(fs[A])
                 /\ buf_'.st = "live" /\ buf_'.base = 0
                 /\ StartsWith(fs'[A], fs[A])]_vars

\* C5: on an open writer, reopen(truncate) leaves the writer and the files as
\* close() followed by open(path, capacity, truncate) with the recorded path
\* and capacity does.
C5_ReopenIsCloseThenOpen ==
    [][\A t \in BOOLEAN, env \in OsGrants :
          (Reopen(t, env) /\ fd_.st = "open" /\ buf_.st = "live")
              => LET r == open(close(M), _filename, max_size_, t, env)
                 IN  /\ max_size_' = r.max_size_
                     /\ offset_' = r.offset_
                     /\ fd_' = r.fd_
                     /\ buf_' = r.buf_
                     /\ fs' = r.fs
                     /\ err' = r.err]_vars

\* the bytes of a generation are in no file
Evicted(bytes) ==
    \A p \in Paths : fs[p] # NoFile =>
        \A i \in 1..Len(bytes), k \in 1..Len(fs[p]) : fs[p][k] # bytes[i]

\* generation j (1 = the records since the last rotation) is where the
\* rotation scheme puts it
GenerationsInPlace ==
    \A j \in 1..Len(gens) :
        LET f == calc_filename(RotBase, j - 1) IN
        IF j - 1 > _max_files THEN Evicted(gens[j])
        ELSE /\ file_exists(fs, f)
             /\ IF j = 1 THEN StartsWith(fs[f], gens[j])
                ELSE fs[f] = gens[j]

\* C6: with max_files >= 1, after every append of a record that fits
\* max_size, rotating or not, generation R_j is complete in base_path.(r+1-j)
\* while r+1-j <= max_files, the records since the last rotation are in
\* base_path, and older generations are evicted.
C6_RotationKeepsGenerations ==
    [][\A n \in Lengths :
          (/\ RotatingSinkIt(n, AllGranted, FALSE)
           /\ _max_files >= 1 /\ n <= _max_size
           /\ GenerationsInPlace)
              => GenerationsInPlace']_vars

\* C7: constructing a daily sink with rotation_hour outside 0..23 or
\* rotation_minute outside 0..59 raises invalid-configuration and creates,
\* opens, resizes or truncates no file; with both in range it does not raise it.
C7_InvalidConfigurationRejected ==
    [][\A h \in {-1, 0, 23, 24}, m \in {-1, 0, 59, 60}, t1 \in Readings(now) :
          DailyCtor(h, m, MaxCap, AllGranted, now, t1)
              => IF h \notin 0..23 \/ m \notin 0..59
                 THEN /\ err' = "invalid_configuration"
                      /\ fs' = fs /\ io' = {} /\ held' = NoneHeld
                      /\ sink' = "none"
                 ELSE err' # "invalid_configuration"]_vars

C7_Witness == op.name = "daily_ctor" /\ err = "invalid_configuration"

C9_CloseIdempotent ==
    [][(Close /\ fd_.st # "open")
          => /\ <<max_size_, offset_, buf_, fd_, mmap_, _filename>>' = hvars
             /\ fs' = fs
             /\ "stale_release" \notin faults']_vars

\* C10: reopen on a writer that has not been opened successfully raises the
\* reopen-without-prior-open error and carries out no file operation.
C10_ReopenNeedsOpen ==
    [][\A t \in BOOLEAN, env \in OsGrants :
          (Reopen(t, env) /\ buf_.st = "uninit")
              => /\ err' = "reopen_not_opened"
                 /\ fs' = fs
                 /\ io' = {}]_vars

\* C11: when one attempt to open the file fails transiently (CreateFile is
\* refused once) and an attempt the OS grants would succeed, open, which is to
\* make up to open_tries attempts, succeeds.
C11_OpenRetries ==
    [][\A f \in OnePath, c \in Capacities, t \in BOOLEAN :
          (/\ Open(f, c, t, Grant("create"))
           /\ open_tries >= 2
           /\ open(M, f, c, t, AllGranted).err = "none")
              => err' = "none" /\ fd_'.st = "open"]_vars

\* the bytes are in no file
Absent(files, bytes) ==
    \A p \in DOMAIN files : files[p] # NoFile =>
        \A i \in 1..Len(bytes), k \in 1..Len(files[p]) : files[p][k] # bytes[i]

\* C12: when a rotation's delete or rename fails, the append raises the
\* rotation error and the record that triggered the rotation is in no file.
C12_RotationFailurePropagated ==
    [][\A n \in Lengths, crash \in BOOLEAN, r \in {"remove", "rename"} :
          (/\ RotatingSinkIt(n, Grant(r), crash)
           /\ _current_size + n > _max_size
           /\ r \in _rotate(M, RotBase, _max_files, AllGranted).io)
              => /\ err' = "rotation_failed"
                 /\ Absent(fs', [i \in 1..n |-> total + i])]_vars

C12_Witness ==
    /\ op.name = "rotating_sink_it" /\ err = "rotation_failed"
    /\ Len(gens) >= 2 /\ Absent(fs, gens[1])

\* C13: in every state in which the writer is open, 0 <= offset <= capacity.
C13_OffsetWithinCapacity ==
    (fd_.st = "open" /\ buf_.st = "live")
        => (0 <= offset_ /\ offset_ <= max_size_)

\* C14: after the rotating sink's constructor and after every append that
\* completes, _current_size equals the helper's size(); after a completed
\* append that rotated, both equal the length of the triggering record.
C14_CurrentSizeMirrorsOffset ==
    [][/\ \A c \in Capacities, k \in 0..MaxFiles, env \in OsGrants :
             (RotatingCtor(c, k, env) /\ err' = "none")
                 => _current_size' = offset_'
       /\ \A n \in Lengths, env \in RotateGrants, crash \in BOOLEAN :
             (RotatingSinkIt(n, env, crash) /\ err' = "none")
                 => /\ _current_size' = offset_'
                    /\ _current_size + n > _max_size => _current_size' = n]_vars

\* a completed append that rotated, after an earlier record
C14_Witness ==
    /\ sink = "rotating" /\ op.name = "rotating_sink_it" /\ err = "none"
    /\ Len(gens) >= 2 /\ gens[2] # <<>>
    /\ _current_size = Len(gens[1]) /\ offset_ = _current_size

\* C15: an append rotates iff _current_size + len(record) > _max_size before
\* the write.  Without rotation no file operation is made and _current_size
\* and the offset grow by len(record); a rotating append that completes has
\* reopened the base file before the write, which leaves the record at the
\* start of the base file and _current_size = len(record).
C15_RotatesIffOverflow ==
    [][\A n \in Lengths, env \in RotateGrants, crash \in BOOLEAN :
          RotatingSinkIt(n, env, crash)
              => IF _current_size + n > _max_size
                 THEN err' = "none"
                         => /\ "open" \in io'
                            /\ _current_size' = n
                            /\ offset_' = n
                            /\ fs'[RotBase][1] = total + 1
                 ELSE /\ io' = {} /\ err' = "none"
                      /\ _current_size' = _current_size + n
                      /\ offset_' = offset_ + n]_vars

\* a record that makes the total exactly _max_size, appended without rotation
C15_Witness ==
    /\ sink = "rotating" /\ op.name = "rotating_sink_it" /\ err = "none"
    /\ io = {} /\ _current_size = _max_size /\ Len(gens) = 1

\* C16: an append of the daily sink at t >= _rotation_tp switches the helper
\* to the file the name policy gives at t, recomputes _rotation_tp to a later
\* instant and writes the record at the start of that file, the file of the
\* prior period keeping its content; an append at t < _rotation_tp writes
\* into the current file without switching.  (Records that fit the capacity,
\* the OS granting every call.)
C16_DailyAppendSwitchesFile ==
    [][\A n \in Lengths, crash \in BOOLEAN, t1 \in Readings(now) :
          \A t2 \in Readings(t1) :
             (/\ DailySinkIt(n, MaxCap, AllGranted, crash, now, t1, t2)
              /\ Within)
                 => IF now >= _rotation_tp
                    THEN /\ err' = "none"
                         /\ fd_' = OpenFd(daily_calc_filename(DailyBase, t1))
                         /\ _rotation_tp' > now'
                         /\ StartsWith(fs'[fd_'.file], [i \in 1..n |-> total + i])
                         /\ fd_'.file # fd_.file
                                => StartsWith(fs'[fd_.file], appended)
                    ELSE /\ offset_ + n <= max_size_
                            => /\ err' = "none" /\ fd_' = fd_ /\ io' = {}
                               /\ StartsWith(fs'[fd_.file], appended')
                         /\ UNCHANGED _rotation_tp]_vars

\* C17: an open that fails leaves no file, section or view held and the
\* writer closed, and a close() called next is a no-op: it changes no field
\* of the writer and no file.
C17_FailedOpenRolledBack ==
    [][/\ \A f \in OnePath, c \in Capacities, t \in BOOLEAN, env \in OsGrants :
             (Open(f, c, t, env) /\ err' = "open_failed")
                 => held' = NoneHeld /\ fd_' = NoFd
       /\ (Close /\ op.name = "open" /\ err = "open_failed")
             => /\ <<max_size_, offset_, buf_, fd_, mmap_, _filename>>' = hvars
                /\ fs' = fs]_vars

\* C18: once the rotating sink is configured, the files that exist are among
\* base, base.1, ..., base.max_files.
C18_GenerationFilesBounded ==
    (_max_size # 0) =>
        \A p \in Paths :
            file_exists(fs, p)
                => p \in {RotBase} \cup {RotBase \o <<i>> : i \in 1.._max_files}

\* after a rotation every allowed name exists
C18_Witness ==
    /\ sink = "rotating" /\ op.name = "rotating_sink_it"
    /\ _max_files = MaxFiles
    /\ \A i \in 0.._max_files : file_exists(fs, calc_filename(RotBase, i))

\* C19: an open, granted by the OS, of a path that names no file succeeds
\* with offset 0 and the view at the start of the new file, whatever the
\* writer did before.
C19_NewFileStartsAtZero ==
    [][\A f \in TwoPaths, c \in Capacities, t \in BOOLEAN :
          (Open(f, c, t, AllGranted) /\ ~file_exists(fs, f))
              => /\ err' = "none"
                 /\ offset_' = 0
                 /\ buf_' = LiveBuf(f, 0, c)]_vars

\* the first n bytes of the two files are the same
SamePrefix(before, after, n) ==
    Len(after) >= n /\ SubSeq(after, 1, n) = SubSeq(before, 1, n)

\* C20: a non-truncating open of an existing file of size s on a closed
\* writer, succeeding or failing, leaves bytes [0, min(s, capacity)) of the
\* file unchanged.
C20_OpenKeepsContent ==
    [][\A f \in OnePath, c \in Capacities, env \in OsGrants :
          (Open(f, c, FALSE, env) /\ fd_.st # "open" /\ file_exists(fs, f))
              => SamePrefix(fs[f], fs'[f],
                            IF Len(fs[f]) < c THEN Len(fs[f]) ELSE c)]_vars

=============================================================================
